---- MODULE Spec2Model ----
(***************************************************************************)
(* Model of src/main.py: the one-shot pipeline                             *)
(*   authenticate -> trending topic -> Gemini prompt (with fallback)       *)
(*   -> image generation + dummy video file -> YouTube upload -> cleanup.  *)
(* The process is single threaded; every external collaborator (token      *)
(* file, pytrends, Gemini, the inference API, the file system, the upload  *)
(* endpoint) is a nondeterministic choice among the outcomes it can have.  *)
(***************************************************************************)
EXTENDS Integers, Sequences, FiniteSets, TLC

\* ---------------------------------------------------------------- bounds
\* Longest fallback_prompts.json list that is enumerated.
MaxFallbackEntries == 2
\* Value at which the count of next_chunk calls saturates.
MaxChunks == 2
\* Upload progress is reported in steps 0..MaxProgress.
MaxProgress == 1

\* ------------------------------------------------------------ JSON values
\* A parsed JSON document: null, a non-object, or an object over the four keys
\* the script reads.  Fields of absent keys hold the defaults "" and <<>>.
Keys == {"prompt", "title", "description", "tags"}

JsonNull == [kind |-> "null", keys |-> {}, prompt |-> "", title |-> "",
             description |-> "", tags |-> <<>>]

\* A document that is neither null nor an object (an array, a string, a number).
JsonNonObject == [kind |-> "non_object", keys |-> {}, prompt |-> "",
                  title |-> "", description |-> "", tags |-> <<>>]

\* The object holding exactly the keys ks, with the given values.
JsonObject(ks, p, t, d, g) ==
    [kind |-> "object", keys |-> ks,
     prompt      |-> IF "prompt" \in ks THEN p ELSE "",
     title       |-> IF "title" \in ks THEN t ELSE "",
     description |-> IF "description" \in ks THEN d ELSE "",
     tags        |-> IF "tags" \in ks THEN g ELSE <<>>]

\* The documents an external JSON source (Gemini, the fallback file) can hold.
JsonValues ==
    {JsonNull, JsonNonObject} \cup
    { JsonObject(ks, "p", t, d, g) :
        ks \in SUBSET Keys, t \in {"", "t"}, d \in {"", "d"},
        g \in {<<>>, <<"#tag">>} }

\* Python's d[k]: succeeds only on a dict that holds k (KeyError otherwise;
\* TypeError on None, a list, a string or a number).
CanSubscript(d, k) == d.kind = "object" /\ k \in d.keys

SubscriptError(d, k) == IF d.kind = "object" THEN "KeyError" ELSE "TypeError"

\* The literal record of get_fallback_prompt's except branch.
HardcodedFallback ==
    [kind |-> "object", keys |-> Keys,
     prompt |-> "Cinematic macro shot of a liquid diamond",
     title |-> "Forbidden Diamond Slice",
     description |-> "This is a safe fallback prompt",
     tags |-> <<"#fallback", "#AIArt", "#shorts", "#asmr", "#satisfying">>]

\* ----------------------------------------------------------------- state
VARIABLES
    pc,               \* position of the main block
    exit_status,      \* process exit status (0 unless sys.exit(1) / traceback)
    traceback,        \* type of the uncaught exception, "none" if none
    youtube_client,   \* "unset", "None" or "service"
    auth_failed_at,   \* Authenticator step that raised, "none" if none
    topic,            \* result of get_trending_topic
    dopamine_data,    \* result of generate_dopamine_prompt
    gemini_path,      \* "unset", "live", "fallback_file", "fallback_hardcoded"
    gemini_raised,    \* client construction, the call or the parse raised
    fallback_file,    \* fallback_prompts.json as get_fallback_prompt found it
    final_video_path, \* "unset", "None" or "mp4"
    path_exists,      \* "unset", "yes" or "no": main's os.path.exists test
    image_bytes,      \* the inference response payload that was received
    fs,               \* temporary files that exist
    created,          \* temporary files generate_ai_video created in this run
    response,         \* last response of next_chunk
    progress,         \* last progress reported by next_chunk
    video_id,         \* value returned by upload_video
    chunk_raised,     \* a next_chunk call raised
    upload_done,      \* upload_video returned
    cleanup,          \* "unset", "removed" or "failed" (os.remove)
    calls             \* number of calls made to each external service

vars == <<pc, exit_status, traceback, youtube_client, auth_failed_at, topic,
          dopamine_data, gemini_path, gemini_raised, fallback_file,
          final_video_path, path_exists, image_bytes, fs, created, response,
          progress, video_id, chunk_raised, upload_done, cleanup, calls>>

Services == {"auth", "trends", "gemini", "inference", "insert", "next_chunk"}

NotRead == [status |-> "not_read", items |-> <<>>]

NoPayload == [size |-> "none", decodable |-> FALSE]

NoResponse == [final |-> FALSE, has_id |-> FALSE]

Init ==
    /\ pc = "auth"
    /\ exit_status = 0
    /\ traceback = "none"
    /\ youtube_client = "unset"
    /\ auth_failed_at = "none"
    /\ topic = "unset"
    /\ dopamine_data = JsonNull
    /\ gemini_path = "unset"
    /\ gemini_raised = FALSE
    /\ fallback_file = NotRead
    /\ final_video_path = "unset"
    /\ path_exists = "unset"
    /\ image_bytes = NoPayload
    /\ fs = {}
    /\ created = {}
    /\ response = NoResponse
    /\ progress = 0
    /\ video_id = "unset"
    /\ chunk_raised = FALSE
    /\ upload_done = FALSE
    /\ cleanup = "unset"
    /\ calls = [s \in Services |-> 0]

\* One more call to service s; the count saturates at MaxChunks.
Called(s) == [calls EXCEPT ![s] = IF @ >= MaxChunks THEN @ ELSE @ + 1]

\* An exception nobody catches: the interpreter prints the traceback and the
\* process ends with status 1.
Uncaught(exc) ==
    /\ pc' = "exit"
    /\ exit_status' = 1
    /\ traceback' = exc

\* sys.exit(1)
SysExit1 ==
    /\ pc' = "exit"
    /\ exit_status' = 1
    /\ traceback' = traceback

\* ----------------------------------------------------------- Authenticator
\* The steps of get_authenticated_youtube_service that can raise.
AuthSteps == {"token_path", "load", "parse", "refresh", "build"}

\* get_authenticated_youtube_service: every exception of its body is caught
\* and turned into None.  The refresh step runs only for an expired
\* credential that has a refresh token.
get_authenticated_youtube_service ==
    /\ pc = "auth"
    /\ \E expired \in BOOLEAN, has_refresh_token \in BOOLEAN,
          failing \in AuthSteps \cup {"none"} :
          /\ failing = "refresh" => (expired /\ has_refresh_token)
          /\ auth_failed_at' = failing
          /\ youtube_client' = IF failing = "none" THEN "service" ELSE "None"
    /\ calls' = Called("auth")
    /\ pc' = "auth_check"
    /\ UNCHANGED <<exit_status, traceback, topic, dopamine_data, gemini_path,
                   gemini_raised, fallback_file, final_video_path,
                   path_exists, image_bytes, fs, created, response,
                   progress, video_id, chunk_raised, upload_done,
                   cleanup>>

\* Mutant of MainAuthCheck: the None test is missing.
MainAuthCheck_NoTest ==
    /\ pc = "auth_check"
    /\ pc' = "trend"
    /\ UNCHANGED <<exit_status, traceback>>
    /\ UNCHANGED <<youtube_client, auth_failed_at, topic, dopamine_data,
                   gemini_path, gemini_raised, fallback_file,
                   final_video_path, path_exists, image_bytes, fs,
                   created, response, progress, video_id,
                   chunk_raised, upload_done, cleanup, calls>>

\* main: if youtube_client is None: sys.exit(1)
MainAuthCheck ==
    /\ pc = "auth_check"
    /\ IF youtube_client = "None"
         THEN SysExit1
         ELSE /\ pc' = "trend"
              /\ UNCHANGED <<exit_status, traceback>>
    /\ UNCHANGED <<youtube_client, auth_failed_at, topic, dopamine_data,
                   gemini_path, gemini_raised, fallback_file,
                   final_video_path, path_exists, image_bytes, fs,
                   created, response, progress, video_id,
                   chunk_raised, upload_done, cleanup, calls>>

\* ------------------------------------------------------------ Topic Source
\* get_trending_topic: the live trend, or the fixed string on any exception.
get_trending_topic ==
    /\ pc = "trend"
    /\ \E ok \in BOOLEAN :
          topic' = IF ok THEN "top_trend" ELSE "Unrealistic ASMR slicing"
    /\ calls' = Called("trends")
    /\ pc' = "gemini"
    /\ UNCHANGED <<exit_status, traceback, youtube_client, auth_failed_at,
                   dopamine_data, gemini_path, gemini_raised,
                   fallback_file, final_video_path, path_exists,
                   image_bytes, fs, created, response, progress,
                   video_id, chunk_raised, upload_done, cleanup>>

\* ------------------------------------------------------ Metadata Generator
\* Entries a fallback_prompts.json list is enumerated with: well-formed
\* records and the ways an entry can be malformed.
FallbackEntries ==
    { JsonNull, JsonNonObject,
      JsonObject(Keys, "p", "t", "d", <<"#tag">>),
      JsonObject(Keys, "p", "", "d", <<"#tag">>),
      JsonObject(Keys \ {"tags"}, "p", "t", "d", <<>>),
      JsonObject({}, "", "", "", <<>>) }

\* Sequences over S of length 0..n.
SeqUpTo(S, n) == UNION { [1..k -> S] : k \in 0..n }

\* What open(FALLBACK_FILE) / json.load can find: no file, a file that is not
\* JSON, a JSON document random.choice cannot index (null, a number, an
\* object), or a JSON list.
FallbackFiles ==
    { [status |-> st, items |-> <<>>] :
        st \in {"missing", "not_json", "not_a_sequence"} } \cup
    { [status |-> "list", items |-> its] :
        its \in SeqUpTo(FallbackEntries, MaxFallbackEntries) }

\* get_fallback_prompt: the values it can return for a given file.
\* random.choice of a non-empty list is any element; every exception (open,
\* json.load, random.choice of an empty list or of a non-sequence) yields the
\* hardcoded record.
get_fallback_prompt(file) ==
    IF file.status = "list" /\ Len(file.items) > 0
      THEN { file.items[i] : i \in 1..Len(file.items) }
      ELSE { HardcodedFallback }

\* The path get_fallback_prompt took on a given file.
FallbackPath(file) ==
    IF file.status = "list" /\ Len(file.items) > 0
      THEN "fallback_file" ELSE "fallback_hardcoded"

\* response.text of a Gemini reply: a body, possibly wrapped in ```json or
\* ``` fences; the body is JSON text of a document, or not JSON at all.
GeminiTexts ==
    { [fence |-> f, is_json |-> TRUE, doc |-> v] :
        f \in {"none", "json", "plain"}, v \in JsonValues } \cup
    { [fence |-> f, is_json |-> FALSE, doc |-> JsonNull] :
        f \in {"none", "json", "plain"} }

\* .strip().replace('```json', '').replace('```', ''): the body without fences.
StripFences(text) ==
    [fence |-> "none", is_json |-> text.is_json, doc |-> text.doc]

\* json.loads raises on text that is not JSON (or still carries a fence).
json_loads_raises(text) == text.fence # "none" \/ ~text.is_json

json_loads(text) == text.doc

\* generate_dopamine_prompt, fallback branches: return get_fallback_prompt().
ReturnFallback ==
    \E file \in FallbackFiles :
        /\ fallback_file' = file
        /\ dopamine_data' \in get_fallback_prompt(file)
        /\ gemini_path' = FallbackPath(file)
        /\ gemini_raised' = TRUE

\* generate_dopamine_prompt, live branch: return json.loads(json_output).
ReturnLive(text) ==
    /\ dopamine_data' = json_loads(StripFences(text))
    /\ gemini_path' = "live"
    /\ gemini_raised' = FALSE
    /\ fallback_file' = fallback_file

\* generate_dopamine_prompt(topic): the client is built (KeyError without
\* GEMINI_API_KEY, or any other exception -> fallback); generate_content is
\* called; its text is stripped and parsed; any exception -> fallback.
generate_dopamine_prompt ==
    /\ pc = "gemini"
    /\ \E key_missing \in BOOLEAN, client_fails \in BOOLEAN :
          IF ~key_missing /\ ~client_fails
            THEN /\ calls' = Called("gemini")
                 /\ \/ \E text \in GeminiTexts :
                          /\ ~json_loads_raises(StripFences(text))
                          /\ ReturnLive(text)
                    \/ /\ \E text \in GeminiTexts :
                             json_loads_raises(StripFences(text))
                       /\ ReturnFallback
                    \/ ReturnFallback     \* the call raised, or no .text
            ELSE /\ ReturnFallback
                 /\ calls' = calls
    /\ pc' = "data_check"
    /\ UNCHANGED <<exit_status, traceback, youtube_client, auth_failed_at,
                   topic, final_video_path, path_exists, image_bytes,
                   fs, created, response, progress, video_id,
                   chunk_raised, upload_done, cleanup>>

\* main: if dopamine_data is None: sys.exit(1)
MainDataCheck ==
    /\ pc = "data_check"
    /\ IF dopamine_data.kind = "null"
         THEN SysExit1
         ELSE /\ pc' = "read_prompt"
              /\ UNCHANGED <<exit_status, traceback>>
    /\ UNCHANGED <<youtube_client, auth_failed_at, topic, dopamine_data,
                   gemini_path, gemini_raised, fallback_file,
                   final_video_path, path_exists, image_bytes, fs,
                   created, response, progress, video_id,
                   chunk_raised, upload_done, cleanup, calls>>

\* main: generate_ai_video(dopamine_data['prompt']) -- the subscript is
\* evaluated first and its KeyError / TypeError is not caught.
MainReadPrompt ==
    /\ pc = "read_prompt"
    /\ IF CanSubscript(dopamine_data, "prompt")
         THEN /\ pc' = "media"
              /\ UNCHANGED <<exit_status, traceback>>
         ELSE Uncaught(SubscriptError(dopamine_data, "prompt"))
    /\ UNCHANGED <<youtube_client, auth_failed_at, topic, dopamine_data,
                   gemini_path, gemini_raised, fallback_file,
                   final_video_path, path_exists, image_bytes, fs,
                   created, response, progress, video_id,
                   chunk_raised, upload_done, cleanup, calls>>

\* ---------------------------------------------------------- Media Producer
\* response.content of the inference API: its size class and whether PIL can
\* decode it.  An empty payload is never an image.
Payloads ==
    { [size |-> sz, decodable |-> dec] :
        sz \in {"empty", "undersized", "adequate"}, dec \in BOOLEAN } \
    { [size |-> "empty", decodable |-> TRUE] }

\* The steps of generate_ai_video that can fail, in program order.
MediaSteps == {"hf_token", "post", "raise_for_status", "image_open",
               "image_save", "open_mp4", "write_mp4"}

\* A payload has been received once post and raise_for_status succeeded.
Received(failing) == failing \notin {"hf_token", "post", "raise_for_status"}

\* Files on disk when generate_ai_video ends having failed at `failing`
\* ("none": success).  A failed image.save may or may not leave the .jpg.
FilesWritten(failing, partial) ==
    CASE failing \in {"hf_token", "post", "raise_for_status", "image_open"}
           -> {}
      [] failing = "image_save" -> IF partial THEN {"jpg"} ELSE {}
      [] failing = "open_mp4"   -> {"jpg"}
      [] OTHER                  -> {"jpg", "mp4"}

\* generate_ai_video(prompt_text): None without HF_TOKEN; otherwise one POST,
\* the bytes are opened as an image, saved as .jpg, a dummy _final.mp4 is
\* written and its path returned; every exception returns None.
generate_ai_video ==
    /\ pc = "media"
    /\ \E failing \in MediaSteps \cup {"none"}, payload \in Payloads,
          partial \in BOOLEAN :
          /\ failing = "image_open"
                <=> (Received(failing) /\ ~payload.decodable)
          /\ image_bytes' = IF Received(failing) THEN payload ELSE NoPayload
          /\ fs' = fs \cup FilesWritten(failing, partial)
          /\ created' = created \cup FilesWritten(failing, partial)
          /\ final_video_path' = IF failing = "none" THEN "mp4" ELSE "None"
          /\ calls' = IF failing = "hf_token" THEN calls
                       ELSE Called("inference")
    /\ pc' = "path_check"
    /\ UNCHANGED <<exit_status, traceback, youtube_client, auth_failed_at,
                   topic, dopamine_data, gemini_path, gemini_raised,
                   fallback_file, path_exists, response, progress,
                   video_id, chunk_raised, upload_done, cleanup>>

\* Mutant of MainPathCheck: the else branch only prints, without sys.exit(1).
MainPathCheck_NoExit ==
    /\ pc = "path_check"
    /\ \E vanished \in BOOLEAN :
          /\ fs' = IF vanished THEN fs \ {"mp4"} ELSE fs
          /\ path_exists' = IF final_video_path # "mp4" THEN path_exists
                             ELSE IF "mp4" \in fs' THEN "yes" ELSE "no"
          /\ pc' = IF final_video_path = "mp4" /\ "mp4" \in fs'
                     THEN "read_fields" ELSE "exit"
          /\ UNCHANGED <<exit_status, traceback>>
    /\ UNCHANGED <<youtube_client, auth_failed_at, topic, dopamine_data,
                   gemini_path, gemini_raised, fallback_file,
                   final_video_path, image_bytes, created, response,
                   progress, video_id, chunk_raised, upload_done,
                   cleanup, calls>>

\* Mutant of MainPathCheck: a failed media step is retried instead of ending
\* the run.
MainPathCheck_Retry ==
    /\ pc = "path_check"
    /\ \E vanished \in BOOLEAN :
          /\ fs' = IF vanished THEN fs \ {"mp4"} ELSE fs
          /\ path_exists' = IF final_video_path # "mp4" THEN path_exists
                             ELSE IF "mp4" \in fs' THEN "yes" ELSE "no"
          /\ pc' = IF final_video_path = "mp4" /\ "mp4" \in fs'
                     THEN "read_fields" ELSE "media"
          /\ UNCHANGED <<exit_status, traceback>>
    /\ UNCHANGED <<youtube_client, auth_failed_at, topic, dopamine_data,
                   gemini_path, gemini_raised, fallback_file,
                   final_video_path, image_bytes, created, response,
                   progress, video_id, chunk_raised, upload_done,
                   cleanup, calls>>

\* main: if final_video_path and os.path.exists(final_video_path): upload,
\* else sys.exit(1).  Between the write and the test another process may
\* have removed the file from the temporary directory.
MainPathCheck ==
    /\ pc = "path_check"
    /\ \E vanished \in BOOLEAN :
          /\ fs' = IF vanished THEN fs \ {"mp4"} ELSE fs
          /\ path_exists' = IF final_video_path # "mp4" THEN path_exists
                             ELSE IF "mp4" \in fs' THEN "yes" ELSE "no"
          /\ IF final_video_path = "mp4" /\ "mp4" \in fs'
               THEN /\ pc' = "read_fields"
                    /\ UNCHANGED <<exit_status, traceback>>
               ELSE SysExit1
    /\ UNCHANGED <<youtube_client, auth_failed_at, topic, dopamine_data,
                   gemini_path, gemini_raised, fallback_file,
                   final_video_path, image_bytes, created, response,
                   progress, video_id, chunk_raised, upload_done,
                   cleanup, calls>>

\* ---------------------------------------------------------------- Uploader
\* main: the arguments dopamine_data['title'], ['description'], ['tags'] of the
\* upload_video call are evaluated in order; a missing key is an uncaught
\* KeyError.
MainReadFields ==
    /\ pc = "read_fields"
    /\ IF \A k \in {"title", "description", "tags"} :
            CanSubscript(dopamine_data, k)
         THEN /\ pc' = "upload_video"
              /\ UNCHANGED <<exit_status, traceback>>
         ELSE Uncaught("KeyError")
    /\ UNCHANGED <<youtube_client, auth_failed_at, topic, dopamine_data,
                   gemini_path, gemini_raised, fallback_file,
                   final_video_path, path_exists, image_bytes, fs,
                   created, response, progress, video_id,
                   chunk_raised, upload_done, cleanup, calls>>

\* upload_video, up to the loop: returns at once without a service; builds
\* the body, MediaFileUpload(file_path) (raises if the file cannot be opened)
\* and the videos().insert request; response = None.
upload_video ==
    /\ pc = "upload_video"
    /\ IF youtube_client # "service"
         THEN /\ pc' = "cleanup"
              /\ upload_done' = TRUE
              /\ video_id' = "None"
              /\ UNCHANGED <<exit_status, traceback, calls, response>>
         ELSE \E media_ok \in BOOLEAN :
                IF media_ok /\ "mp4" \in fs
                  THEN /\ calls' = Called("insert")
                       /\ response' = NoResponse
                       /\ pc' = "upload_loop"
                       /\ UNCHANGED <<exit_status, traceback, upload_done,
                                      video_id>>
                  ELSE /\ Uncaught("OSError")
                       /\ UNCHANGED <<calls, response, upload_done,
                                      video_id>>
    /\ UNCHANGED <<youtube_client, auth_failed_at, topic, dopamine_data,
                   gemini_path, gemini_raised, fallback_file,
                   final_video_path, path_exists, image_bytes, fs,
                   created, progress, chunk_raised, cleanup>>

\* The final responses of the upload endpoint: a resource with or without 'id'.
FinalResponses == { [final |-> TRUE, has_id |-> b] : b \in BOOLEAN }

\* response.get('id')
GetId(resp) == IF resp.has_id THEN "id" ELSE "None"

\* Mutant of next_chunk: an exception of next_chunk() is caught and the chunk
\* is tried again.
next_chunk_Retry ==
    /\ pc = "upload_loop"
    /\ response = NoResponse
    /\ calls' = Called("next_chunk")
    /\ \/ /\ chunk_raised' = TRUE
          /\ pc' = "upload_loop"
          /\ UNCHANGED <<exit_status, traceback, response, progress,
                         video_id, upload_done>>
       \/ /\ \E p \in 0..MaxProgress : progress' = p
          /\ response' = NoResponse
          /\ pc' = "upload_loop"
          /\ UNCHANGED <<exit_status, traceback, chunk_raised, video_id,
                         upload_done>>
       \/ /\ \E resp \in FinalResponses :
                /\ response' = resp
                /\ video_id' = GetId(resp)
          /\ upload_done' = TRUE
          /\ pc' = "cleanup"
          /\ UNCHANGED <<exit_status, traceback, chunk_raised, progress>>
    /\ UNCHANGED <<youtube_client, auth_failed_at, topic, dopamine_data,
                   gemini_path, gemini_raised, fallback_file,
                   final_video_path, path_exists, image_bytes, fs,
                   created, cleanup>>

\* One pass of `while response is None`: next_chunk() raises (not caught),
\* returns (status, None), or returns the final response, on which the loop
\* ends and upload_video returns response.get('id').
next_chunk ==
    /\ pc = "upload_loop"
    /\ response = NoResponse
    /\ calls' = Called("next_chunk")
    /\ \/ /\ Uncaught("HttpError")
          /\ chunk_raised' = TRUE
          /\ UNCHANGED <<response, progress, video_id, upload_done>>
       \/ /\ \E p \in 0..MaxProgress : progress' = p
          /\ response' = NoResponse
          /\ pc' = "upload_loop"
          /\ UNCHANGED <<exit_status, traceback, chunk_raised, video_id,
                         upload_done>>
       \/ /\ \E resp \in FinalResponses :
                /\ response' = resp
                /\ video_id' = GetId(resp)
          /\ upload_done' = TRUE
          /\ pc' = "cleanup"
          /\ UNCHANGED <<exit_status, traceback, chunk_raised, progress>>
    /\ UNCHANGED <<youtube_client, auth_failed_at, topic, dopamine_data,
                   gemini_path, gemini_raised, fallback_file,
                   final_video_path, path_exists, image_bytes, fs,
                   created, cleanup>>

\* ----------------------------------------------------------------- Cleanup
\* main: os.remove(final_video_path), outside any try; then the script ends.
MainCleanup ==
    /\ pc = "cleanup"
    /\ \E removed \in BOOLEAN :
          IF removed /\ "mp4" \in fs
            THEN /\ fs' = fs \ {"mp4"}
                 /\ cleanup' = "removed"
                 /\ pc' = "exit"
                 /\ UNCHANGED <<exit_status, traceback>>
            ELSE /\ Uncaught("OSError")
                 /\ cleanup' = "failed"
                 /\ fs' = fs
    /\ UNCHANGED <<youtube_client, auth_failed_at, topic, dopamine_data,
                   gemini_path, gemini_raised, fallback_file,
                   final_video_path, path_exists, image_bytes,
                   created, response, progress, video_id,
                   chunk_raised, upload_done, calls>>

\* ------------------------------------------------------------ specification
Next ==
    \/ get_authenticated_youtube_service
    \/ MainAuthCheck
    \/ get_trending_topic
    \/ generate_dopamine_prompt
    \/ MainDataCheck
    \/ MainReadPrompt
    \/ generate_ai_video
    \/ MainPathCheck
    \/ MainReadFields
    \/ upload_video
    \/ next_chunk
    \/ MainCleanup

Spec == Init /\ [][Next]_vars

\* The single thread always takes its next step while one exists; what the
\* external services answer is not constrained.
FairSpec == Spec /\ WF_vars(Next)

TypeOK ==
    /\ pc \in {"auth", "auth_check", "trend", "gemini", "data_check",
               "read_prompt", "media", "path_check", "read_fields",
               "upload_video", "upload_loop", "cleanup", "exit"}
    /\ exit_status \in {0, 1}
    /\ youtube_client \in {"unset", "None", "service"}
    /\ final_video_path \in {"unset", "None", "mp4"}
    /\ fs \subseteq {"jpg", "mp4"}
    /\ created \subseteq {"jpg", "mp4"}
    /\ progress \in 0..MaxProgress
    /\ \A s \in Services : calls[s] \in 0..MaxChunks

\* ------------------------------------------------------------------ claims
\* A record with non-empty title, description and tags.
NonEmptyRecord(d) ==
    /\ d.kind = "object"
    /\ {"title", "description", "tags"} \subseteq d.keys
    /\ d.title # ""
    /\ d.description # ""
    /\ Len(d.tags) > 0

\* A record that holds all four keys.
CompleteRecord(d) == d.kind = "object" /\ d.keys = Keys

\* C1: the record generate_dopamine_prompt returned, on whichever path, has a
\* non-empty title, description and tags, and so has every record whose
\* fields reach upload_video.
C1_RecordAlwaysUsable ==
    /\ gemini_path # "unset" => NonEmptyRecord(dopamine_data)
    /\ pc \in {"upload_video", "upload_loop"} => NonEmptyRecord(dopamine_data)

\* C2: when the client construction, the call or the parse raised, the result
\* is an entry of the fallback file if the file loads as a non-empty list and
\* the hardcoded literal otherwise, and it is neither null nor partial.
C2_RaiseReturnsFallbackRecord ==
    gemini_raised =>
        /\ IF fallback_file.status = "list" /\ Len(fallback_file.items) > 0
             THEN \E i \in 1..Len(fallback_file.items) :
                     dopamine_data = fallback_file.items[i]
             ELSE dopamine_data = HardcodedFallback
        /\ dopamine_data.kind # "null"
        /\ CompleteRecord(dopamine_data)

\* C3: a failure of any Authenticator step is caught (no traceback), the
\* Authenticator has run exactly once, the run goes nowhere but to exit
\* status 1, and no other service has been called.
C3_AuthFailureHalts ==
    auth_failed_at # "none" =>
        /\ youtube_client = "None"
        /\ traceback = "none"
        /\ calls["auth"] = 1
        /\ \A s \in Services \ {"auth"} : calls[s] = 0
        /\ pc \in {"auth_check", "exit"}
        /\ pc = "exit" => exit_status = 1

C3_Witness ==
    /\ auth_failed_at = "refresh"
    /\ pc = "exit"
    /\ exit_status = 1

\* C4: when generate_ai_video returned None, or the returned path did not
\* exist, videos().insert and next_chunk are never called and the process
\* exits with status 1.
C4_NoUploadWithoutMedia ==
    (final_video_path = "None" \/ path_exists = "no") =>
        /\ calls["insert"] = 0
        /\ calls["next_chunk"] = 0
        /\ ~upload_done
        /\ pc \in {"path_check", "exit"}
        /\ pc = "exit" => exit_status = 1

C4_Witness ==
    /\ final_video_path = "None"
    /\ "jpg" \in created
    /\ pc = "exit"
    /\ exit_status = 1

\* C5: the exit status is 0 when the upload completed and 1 when a step
\* failed before that.
C5_ExitStatus ==
    pc = "exit" =>
        /\ upload_done => exit_status = 0
        /\ ~upload_done => exit_status = 1

\* C6: after a completed upload a failed os.remove does not make the run
\* fail: no traceback, exit status 0.
C6_CleanupFailureNonFatal ==
    (pc = "exit" /\ upload_done /\ cleanup = "failed") =>
        (exit_status = 0 /\ traceback = "none")

\* C7: at exit no file that generate_ai_video created in the run exists.
C7_NoTempFileLeft ==
    pc = "exit" => created \cap fs = {}

\* C8: a payload below the minimum size is rejected like a request failure:
\* generate_ai_video returns None and has written no file.
C8_UndersizedRejected ==
    image_bytes.size \in {"empty", "undersized"} =>
        (final_video_path = "None" /\ created = {})

\* C9: the loop runs only while no final response has come; upload_video
\* returns the id of the final response and nothing else; once a next_chunk
\* call raised, the exception is uncaught, no id is returned, the cleanup has
\* not run (the file is still there) and the run has ended with status 1.
C9_PollUntilFinalNoRetry ==
    /\ pc = "upload_loop" => (response = NoResponse /\ ~upload_done)
    /\ upload_done =>
          /\ response \in FinalResponses
          /\ video_id = GetId(response)
          /\ calls["next_chunk"] >= 1
          /\ ~chunk_raised
    /\ chunk_raised =>
          /\ pc = "exit"
          /\ exit_status = 1
          /\ traceback = "HttpError"
          /\ video_id = "unset"
          /\ cleanup = "unset"
          /\ "mp4" \in fs

C9_Witness ==
    /\ chunk_raised
    /\ calls["next_chunk"] = MaxChunks
    /\ progress = MaxProgress
    /\ pc = "exit"

\* Position of each stage in the main block.
Stage ==
    CASE pc = "auth"         -> 0
      [] pc = "auth_check"   -> 1
      [] pc = "trend"        -> 2
      [] pc = "gemini"       -> 3
      [] pc = "data_check"   -> 4
      [] pc = "read_prompt"  -> 5
      [] pc = "media"        -> 6
      [] pc = "path_check"   -> 7
      [] pc = "read_fields"  -> 8
      [] pc = "upload_video" -> 9
      [] pc = "upload_loop"  -> 10
      [] pc = "cleanup"      -> 11
      [] OTHER               -> 12

\* C10 as stated: every run reaches an exit, the polling loop included.
C10_AlwaysTerminates == <>(pc = "exit")

\* C10 amended: a run never goes back to an earlier stage, and it reaches an
\* exit unless it stays in the polling loop for ever.
C10_TerminatesUnlessPollingForever ==
    /\ [][Stage' > Stage \/ (pc = "upload_loop" /\ pc' = "upload_loop")]_vars
    /\ <>(pc = "exit") \/ <>[](pc = "upload_loop" /\ response = NoResponse)

C10_Witness ==
    /\ pc = "exit"
    /\ exit_status = 0
    /\ calls["next_chunk"] = MaxChunks
    /\ progress = MaxProgress

====
